---- MODULE Spec2Model ----
(***************************************************************************)
(* Workflow state machine of the universal web agent.                      *)
(*                                                                         *)
(*   src/main.py         the job: submission, run_job, streaming, results  *)
(*   src/agent/graph.py  the five nodes, the router, and the graph wiring  *)
(*   src/agent/llm.py    the lenient JSON decode of a model response       *)
(*                                                                         *)
(* One job is modelled.  pc is the node the graph runs next; the router    *)
(* (the conditional edge of action_executor) is a step of its own that     *)
(* always follows action_executor.  The state record the router is given   *)
(* is taken to be the record handed to the next node, as spec.md section 2 *)
(* describes it ("one shared state record threaded through every           *)
(* transition").                                                           *)
(*                                                                         *)
(* Opaque strings are abstracted: a plan step is <<flavour, index>>, a     *)
(* history / execution_summary / screenshots entry keeps the step and the  *)
(* outcome it was formatted from, a status event keeps its name and, for   *)
(* the router's events, the reason.                                        *)
(*                                                                         *)
(* A job is explored in two runs (RunWide, RunLong): every answer the      *)
(* reasoning service can give under a short recursion limit, and one       *)
(* steady answer under a long one, with a client that streams the status  *)
(* events and fetches the result.                                          *)
(***************************************************************************)
EXTENDS Integers, Sequences, FiniteSets, TLC

VARIABLES
    pc,                  \* node run next; "__end__" and "error" are final
    plan_details,        \* [plan, target_count]
    current_task,
    results,
    screenshots,
    step,
    max_steps,
    history,
    execution_summary,
    last_action,
    last_action_outcome,
    last_error,
    retry_count,
    research_summary,
    decision,            \* what the router returned last
    events,              \* status events pushed by the graph, in order
    supersteps,          \* nodes run so far (graph recursion counter)
    exc,                 \* the exception that left the graph, or NoExc
    tavily_configured,   \* graph.py: tavily_client is not None
    run,                 \* the run: recursion limit, provider, clients
    job,                 \* main.py: where run_job stands
    browser,             \* "none", "open" or "closed"
    results_file,        \* RESULTS_DIR / f"{job_id}.json"
    JOB_RESULTS,         \* JOB_RESULTS.get(job_id)
    fetched,             \* the response to the last GET /result/{job_id}
    streamed,            \* events GET /stream/{job_id} has taken off the queue
    text,                \* SpecDecode: the response text handed to the decoder
    decoded              \* SpecDecode: what the decoder returned

jobVars == <<pc, plan_details, current_task, results, screenshots, step,
             max_steps, history, execution_summary, last_action,
             last_action_outcome, last_error, retry_count, research_summary,
             decision, events, supersteps, exc, tavily_configured>>

serverVars == <<run, job, browser, results_file, JOB_RESULTS, fetched, streamed>>

decodeVars == <<text, decoded>>

vars == <<jobVars, serverVars, decodeVars>>

(***************************************************************************)
(* Bounds of the model and constants of the program.                       *)
(***************************************************************************)

\* max_steps is 40 in run_job; the model runs a lower ceiling so that the
\* ceiling is met within the explored depth.
MaxSteps == 2

\* recursion_limit is 100 in run_job; scaled with MaxSteps.
RecursionLimit == 11

\* the recursion limit of the long run: six Executor passes, four of them
\* retried, fit below it
LongRunLimit == RecursionLimit + 10

\* longest plan the reasoning service returns in the model
MaxPlanLen == MaxSteps + 1

\* largest results size the model lets an extract reach
MaxResults == 1

\* longest response text of SpecDecode, in tokens
MaxTextLen == 5

RetryLimit == 2

HistoryCap == 5

\* plan_details without a target_count (the router reads float('inf'))
Absent == -1

NoVal == "<missing>"

NoExc == "none"


(***************************************************************************)
(* llm.py: the lenient decode.  A response text is a sequence of tokens:   *)
(* the structural characters of JSON, "k" for a key with its colon, "s"    *)
(* for a scalar literal and "w" for a character of prose.                  *)
(***************************************************************************)

Tokens == {"{", "}", "[", "]", ",", "k", "s", "w"}

Texts == UNION {[1..n -> Tokens] : n \in 0..MaxTextLen}

\* str.find / str.rfind; 0 stands for Python's -1
find(s, t) ==
    IF \E i \in 1..Len(s) : s[i] = t
    THEN CHOOSE i \in 1..Len(s) : s[i] = t /\ \A j \in 1..(i - 1) : s[j] # t
    ELSE 0

rfind(s, t) ==
    IF \E i \in 1..Len(s) : s[i] = t
    THEN CHOOSE i \in 1..Len(s) : s[i] = t /\ \A j \in (i + 1)..Len(s) : s[j] # t
    ELSE 0

\* s[a:b+1] with 1-based inclusive bounds; empty when b < a
Slice(s, a, b) == IF b < a THEN <<>> ELSE SubSeq(s, a, b)

count(s, t) == Cardinality({i \in 1..Len(s) : s[i] = t})

Repeat(t, n) == [i \in 1..n |-> t]

\* re.sub(r',\s*([\}\]])', r'\1', s): drop each comma that a closer follows
RECURSIVE StripFrom(_, _)
StripFrom(s, i) ==
    IF i > Len(s) THEN <<>>
    ELSE IF s[i] = "," /\ i < Len(s) /\ s[i + 1] \in {"}", "]"}
         THEN StripFrom(s, i + 1)
         ELSE <<s[i]>> \o StripFrom(s, i + 1)

StripTrailingCommas(s) == StripFrom(s, 1)

\* json.loads: the index after the value that starts at i, 0 when none does
RECURSIVE ParseValue(_, _), ParseMembers(_, _), ParseElements(_, _)
ParseValue(s, i) ==
    IF i > Len(s) THEN 0
    ELSE IF s[i] = "s" THEN i + 1
    ELSE IF s[i] = "{"
         THEN IF i < Len(s) /\ s[i + 1] = "}" THEN i + 2 ELSE ParseMembers(s, i + 1)
    ELSE IF s[i] = "["
         THEN IF i < Len(s) /\ s[i + 1] = "]" THEN i + 2 ELSE ParseElements(s, i + 1)
    ELSE 0

ParseMembers(s, i) ==
    IF i > Len(s) \/ s[i] # "k" THEN 0
    ELSE LET j == ParseValue(s, i + 1)
         IN  IF j = 0 \/ j > Len(s) THEN 0
             ELSE IF s[j] = "}" THEN j + 1
             ELSE IF s[j] = "," THEN ParseMembers(s, j + 1)
             ELSE 0

ParseElements(s, i) ==
    LET j == ParseValue(s, i)
    IN  IF j = 0 \/ j > Len(s) THEN 0
        ELSE IF s[j] = "]" THEN j + 1
        ELSE IF s[j] = "," THEN ParseElements(s, j + 1)
        ELSE 0

\* json.loads succeeds on s
json_loads_ok(s) == ParseValue(s, 1) = Len(s) + 1

\* what the decode returns when json.loads raises JSONDecodeError
FallbackResponse == "fallback"

\* kind: "raise" (ValueError), "fallback" (the wait action) or "parsed"
extract_json_from_response(s) ==
    LET start_brace_index == find(s, "{")
        end_brace_index   == rfind(s, "}")
        json_str          == IF end_brace_index = 0
                             THEN Slice(s, start_brace_index, Len(s))
                             ELSE Slice(s, start_brace_index, end_brace_index)
        stripped          == StripTrailingCommas(json_str)
        open_braces       == count(stripped, "{")
        close_braces      == count(stripped, "}")
        json_str_fixed    == IF open_braces > close_braces
                             THEN stripped \o Repeat("}", open_braces - close_braces)
                             ELSE stripped
    IN  IF start_brace_index = 0
        THEN [kind |-> "raise", json |-> <<>>]
        ELSE IF json_loads_ok(json_str_fixed)
             THEN [kind |-> "parsed", json |-> json_str_fixed]
             ELSE [kind |-> FallbackResponse, json |-> <<>>]

NotDecoded == [kind |-> "pending", json |-> <<>>]

InitDecode == text \in Texts /\ decoded = NotDecoded

\* one call of the decode on the response text
Decode ==
    /\ decoded = NotDecoded
    /\ decoded' = extract_json_from_response(text)
    /\ UNCHANGED text


(***************************************************************************)
(* Values of the job state.                                                *)
(***************************************************************************)

\* a plan of n steps; the wording tells the step texts of one plan from
\* those of another
PlanOf(wording, n) == [i \in 1..n |-> <<wording, i>>]

\* the plan objects a call returns: the planner's in one wording, the plan
\* updater's in another
PlanDetails(wording) ==
    {[plan |-> PlanOf(wording, n), target_count |-> t] :
        n \in 0..MaxPlanLen, t \in {Absent} \cup 1..MaxResults}

\* plan_details = {} of the initial state, and the decode's fallback object
\* read as a plan: neither has a 'plan' nor a 'target_count' key
NoPlan == [plan |-> <<>>, target_count |-> Absent]

NoTask == <<"", 0>>

\* "All plan steps are complete. The final task is to finish the job."
PlanCompleteTask == <<"complete", 0>>

\* an action object: shape "dict" with the keys that are not NoVal, or
\* shape "num" for a JSON number in the place of the object
Act(type, id, txt, items, reason) ==
    [shape |-> "dict", type |-> type, id |-> id, text |-> txt,
     items |-> items, reason |-> reason]

EmptyAction == Act(NoVal, NoVal, NoVal, <<>>, NoVal)

WaitAction == Act("wait", NoVal, NoVal, <<>>, NoVal)

NumAction == [shape |-> "num", type |-> NoVal, id |-> NoVal, text |-> NoVal,
              items |-> <<>>, reason |-> NoVal]

Vocabulary == {"click", "press_enter", "fill", "scroll", "wait", "extract", "finish"}

ItemLists == UNION {[1..n -> {"x"}] : n \in 1..MaxResults}

Actions ==
    {EmptyAction, NumAction, WaitAction,
     Act(NoVal, "e1", NoVal, <<>>, NoVal),
     Act("click", "e1", NoVal, <<>>, NoVal),
     Act("click", NoVal, NoVal, <<>>, NoVal),
     Act("press_enter", "e1", NoVal, <<>>, NoVal),
     Act("fill", "e1", "t", <<>>, NoVal),
     Act("fill", "e1", NoVal, <<>>, NoVal),
     Act("scroll", NoVal, NoVal, <<>>, NoVal),
     Act("finish", NoVal, NoVal, <<>>, "done"),
     Act("finish", NoVal, NoVal, <<>>, NoVal),
     Act("hover", "e1", NoVal, <<>>, NoVal)}
    \cup {Act("extract", NoVal, NoVal, items, NoVal) : items \in ItemLists}

\* what a browser call does: returns, or raises an exception whose str() has
\* the given lines (none for an empty message)
BrowserOk == [raises |-> FALSE, lines |-> <<>>]

BrowserOutcomes ==
    {BrowserOk,
     [raises |-> TRUE, lines |-> <<"Timeout 30000ms exceeded.", "Call log:">>],
     [raises |-> TRUE, lines |-> <<>>]}

\* what a call of the reasoning service gives the caller: get_llm_response
\* raising after its third attempt, or a response text
LLMError == "llm_error"

SampleTexts ==
    {<<"w">>, <<"{", "w">>, <<"{", "k", "s", "}">>, <<"{", "k", "s">>}

\* a status event; reason is set on the router's events only
Reason(txt) == [text |-> txt, n |-> 0, target |-> 0]

\* f"Collected {len(results)}/{target_count} items."
Collected(n, t) == [text |-> "Collected", n |-> n, target |-> t]

NoReason == Reason(NoVal)

Event(msg) == [msg |-> msg, reason |-> NoReason]

FinishEvent(msg, reason) == [msg |-> msg, reason |-> reason]

\* an execution_summary or history entry: what it reports, the step and the
\* outcome formatted into it
Entry(kind, s, outcome) == [kind |-> kind, step |-> s, outcome |-> outcome]

\* "[Job Halted] Maximum retries reached for a failing step."
HaltEntry == Entry("halt", 0, "")

\* a mutation of Last: the newest entries are the ones dropped
Last_Oldest(s, n) == IF Len(s) <= n THEN s ELSE SubSeq(s, 1, n)

\* s[-n:]
Last(s, n) == IF Len(s) <= n THEN s ELSE SubSeq(s, Len(s) - n + 1, Len(s))

(***************************************************************************)
(* main.py run_job: the initial state of the graph.                        *)
(***************************************************************************)

InitJob ==
    /\ pc = "planner"
    /\ plan_details = NoPlan
    /\ current_task = NoTask
    /\ results = <<>>
    /\ screenshots = <<>>
    /\ step = 1
    /\ max_steps = MaxSteps
    /\ history = <<>>
    /\ execution_summary = <<>>
    /\ last_action = EmptyAction
    /\ last_action_outcome = ""
    /\ last_error = ""
    /\ retry_count = 0
    /\ research_summary = ""
    /\ decision = ""
    /\ events = <<>>
    /\ supersteps = 0
    /\ exc = NoExc
    /\ tavily_configured \in BOOLEAN

\* an exception leaves the node and the graph
Raise(e) ==
    /\ pc' = "error"
    /\ exc' = e

\* the graph runs a node only below the recursion limit
CanRun(node) ==
    /\ job = "running"
    /\ pc = node
    /\ supersteps < run.recursion_limit


LLMResponses ==
    {[ok |-> FALSE, text |-> <<>>]} \cup {[ok |-> TRUE, text |-> t] : t \in SampleTexts}

\* llm.py: get_llm_response followed by the decode; value is what the
\* decoded object stands for when the decode parsed one
CallAndDecode(resp, parsed, fallback) ==
    IF ~resp.ok
    THEN [raises |-> LLMError, value |-> fallback]
    ELSE LET d == extract_json_from_response(resp.text)
         IN  IF d.kind = "raise" THEN [raises |-> "ValueError", value |-> fallback]
             ELSE IF d.kind = FallbackResponse THEN [raises |-> NoExc, value |-> fallback]
             ELSE [raises |-> NoExc, value |-> parsed]

\* the fallback object has no 'plan' key: it reads as the empty plan
get_structured_plan(resp, pd) == CallAndDecode(resp, pd, NoPlan)

get_updated_plan(resp, pd) == CallAndDecode(resp, pd, NoPlan)

\* the fallback object's "action" is {"type": "wait"}
get_agent_action(resp, a) == CallAndDecode(resp, a, WaitAction)

\* everything a call can give its caller
PlanCalls ==
    {get_structured_plan(resp, pd) : resp \in LLMResponses, pd \in PlanDetails("initial")}

UpdateCalls ==
    {get_updated_plan(resp, pd) : resp \in LLMResponses, pd \in PlanDetails("revised")}

ActionCalls == {get_agent_action(resp, a) : resp \in LLMResponses, a \in Actions}

\* the steady provider: every response parses, the plan is always the
\* longest one without a target_count and the action always the same click
Steady(value) == [raises |-> NoExc, value |-> value]

SteadyPlan(wording) == [plan |-> PlanOf(wording, MaxPlanLen), target_count |-> Absent]

\* what the provider of the run answers to a call
Answers(calls, steady) == IF run.provider = "steady" THEN {Steady(steady)} ELSE calls

(***************************************************************************)
(* graph.py: planning_node                                                 *)
(***************************************************************************)

\* a mutation of ReplacePlan: the steps the old plan has are kept, the new
\* plan gives the steps beyond them and the target_count
ReplacePlan_Patch(old, new) ==
    [plan |-> [i \in 1..Len(new.plan) |->
                  IF i <= Len(old.plan) THEN old.plan[i] ELSE new.plan[i]],
     target_count |-> new.target_count]

\* a mutation of ReplacePlan: the new steps are added to the old ones
ReplacePlan_Merge(old, new) ==
    [plan |-> old.plan \o new.plan, target_count |-> new.target_count]

\* state['plan_details'] = plan_details, resp. = new_plan_details
ReplacePlan(old, new) == new

planning_node ==
    /\ CanRun("planner")
    /\ supersteps' = supersteps + 1
    /\ \E r \in Answers(PlanCalls, SteadyPlan("initial")) :
             IF r.raises # NoExc
             THEN /\ Raise(r.raises)
                  /\ events' = Append(events, Event("planning_started"))
                  /\ UNCHANGED <<plan_details, execution_summary>>
             ELSE /\ plan_details' = ReplacePlan(plan_details, r.value)
                  /\ events' = events \o <<Event("planning_started"), Event("plan_generated")>>
                  /\ execution_summary' = Append(execution_summary, Entry("plan", 0, ""))
                  /\ pc' = "agent_reasoner"
                  /\ UNCHANGED exc
    /\ UNCHANGED <<current_task, results, screenshots, step, max_steps, history,
                   last_action, last_action_outcome, last_error, retry_count,
                   research_summary, decision, tavily_configured>>

(***************************************************************************)
(* graph.py: agent_reasoning_node                                          *)
(***************************************************************************)

\* plan[step - 1] of the 0-based list, or the plan-complete sentinel
\* a mutation of TaskAt: step itself is taken as the list index
TaskAt_StepAsIndex(pd, s) == IF s < Len(pd.plan) THEN pd.plan[s + 1] ELSE PlanCompleteTask

TaskAt(pd, s) == IF s - 1 < Len(pd.plan) THEN pd.plan[s] ELSE PlanCompleteTask

\* what the reasoning call may give in this state: an extract is offered
\* only while results stays within MaxResults
Offered ==
    {r \in Answers(ActionCalls, Act("click", "e1", NoVal, <<>>, NoVal)) :
        Len(results) + Len(r.value.items) <= MaxResults}

agent_reasoning_node ==
    /\ CanRun("agent_reasoner")
    /\ supersteps' = supersteps + 1
    /\ current_task' = TaskAt(plan_details, step)
    /\ \E page \in {"ok", "screenshot", "content"}, r \in Offered :
             IF page = "screenshot"
             THEN /\ Raise("PlaywrightError")
                  /\ events' = Append(events, Event("agent_step"))
                  /\ UNCHANGED <<screenshots, last_action, execution_summary>>
             ELSE /\ screenshots' = Append(screenshots, step)
                  /\ IF page = "content" \/ r.raises # NoExc
                     THEN /\ Raise(IF page = "content" THEN "PlaywrightError" ELSE r.raises)
                          /\ events' = events \o <<Event("agent_step"), Event("screenshot_taken")>>
                          /\ UNCHANGED <<last_action, execution_summary>>
                     ELSE /\ last_action' = r.value
                          /\ events' = events \o <<Event("agent_step"), Event("screenshot_taken"),
                                                   Event("agent_thought")>>
                          /\ execution_summary' =
                                Append(execution_summary,
                                       Entry("thought", step, ""))
                          /\ pc' = "action_executor"
                          /\ UNCHANGED exc
    /\ UNCHANGED <<plan_details, results, step, max_steps, history,
                   last_action_outcome, last_error, retry_count,
                   research_summary, decision, tavily_configured>>

(***************************************************************************)
(* graph.py: execute_action_node                                           *)
(***************************************************************************)

InvalidActionError == "Agent produced an invalid or empty action."

NoRaise == [raises |-> FALSE, lines |-> <<>>]

KeyError(key) == [raises |-> TRUE, lines |-> <<key>>]

\* the try block: the exception it ends with, if any.  b is what the browser
\* calls of the branch (and the settle pause after it) do.
TryAction(action, b) ==
    IF action.type \in {"click", "press_enter"}
    THEN IF action.id = NoVal THEN KeyError("'id'") ELSE b
    ELSE IF action.type = "fill"
    THEN IF action.id = NoVal THEN KeyError("'id'")
         ELSE IF b.raises THEN b
         ELSE IF action.text = NoVal THEN KeyError("'text'")
         ELSE NoRaise
    ELSE b

\* outcome and error of one pass; raised is the exception that leaves the node
Execute(action, b) ==
    IF action.shape # "dict"
    THEN [raised |-> "TypeError", outcome |-> "", error |-> "", extended |-> FALSE]
    ELSE IF action.type = NoVal
    THEN [raised |-> NoExc, outcome |-> "FAILED", error |-> InvalidActionError,
          extended |-> FALSE]
    ELSE LET e == TryAction(action, b)
             extended == action.type = "extract"
         IN  IF ~e.raises
             THEN [raised |-> NoExc, outcome |-> "Success", error |-> "",
                   extended |-> extended]
             ELSE IF e.lines = <<>>
             THEN [raised |-> "IndexError", outcome |-> "", error |-> "",
                   extended |-> extended]
             ELSE [raised |-> NoExc, outcome |-> "FAILED", error |-> e.lines[1],
                   extended |-> extended]

\* a mutation of NextStep: the step advances whatever the outcome
NextStep_Always(s, outcome) == s + 1

\* if outcome == "Success": state['step'] += 1
NextStep(s, outcome) == IF outcome = "Success" THEN s + 1 ELSE s

\* a mutation of AppendSummary: the summary is capped as the history is
AppendSummary_Capped(summary, entry) == Last(Append(summary, entry), HistoryCap)

\* state['execution_summary'].append(...)
AppendSummary(summary, entry) == Append(summary, entry)

execute_action_node ==
    /\ CanRun("action_executor")
    /\ supersteps' = supersteps + 1
    /\ \E b \in BrowserOutcomes :
         LET r == Execute(last_action, b)
             pushed == <<Event("executing_action")>>
                       \o (IF r.extended THEN <<Event("partial_result")>> ELSE <<>>)
                       \o (IF r.outcome = "FAILED" THEN <<Event("action_failed")>> ELSE <<>>)
         IN  /\ results' = IF r.extended THEN results \o last_action.items ELSE results
             /\ events' = events \o pushed
             /\ IF r.raised # NoExc
                THEN /\ Raise(r.raised)
                     /\ UNCHANGED <<last_action_outcome, last_error, history,
                                    execution_summary, step>>
                ELSE /\ last_action_outcome' = r.outcome
                     /\ last_error' = r.error
                     /\ history' = Last(Append(history,
                                               Entry("history", step, r.outcome)),
                                        HistoryCap)
                     /\ execution_summary' =
                           AppendSummary(execution_summary, Entry("action", 0, r.outcome))
                     /\ step' = NextStep(step, r.outcome)
                     /\ pc' = "router"
                     /\ UNCHANGED exc
    /\ UNCHANGED <<plan_details, current_task, screenshots, max_steps, last_action,
                   retry_count, research_summary, decision, tavily_configured>>


(***************************************************************************)
(* graph.py: validator_and_router_node, the conditional edge that follows  *)
(* action_executor                                                         *)
(***************************************************************************)

\* a mutation of FinishReason: the agent's reason is dropped
FinishReason_Default(action) == Reason("Task completed.")

\* state['last_action'].get("reason", "Task completed.")
FinishReason(action) ==
    IF action.reason = NoVal THEN Reason("Task completed.") ELSE Reason(action.reason)

\* a mutation of CanRetry: a failure is always retried
CanRetry_Always(rc) == TRUE

\* a mutation of CanRetry: one retry more
CanRetry_Unbounded(rc) == rc <= RetryLimit

\* state['retry_count'] < 2
CanRetry(rc) == rc < RetryLimit

\* a mutation of TargetReached: the target has to be exceeded
TargetReached_Strict(n, target) == target # Absent /\ n > target

\* len(results) >= plan_details.get('target_count', float('inf'))
TargetReached(n, target) == target # Absent /\ n >= target

\* a mutation of PlanDone: the end of the plan is never noticed
PlanDone_Never(s, planlen) == FALSE

\* a mutation of PlanDone: the last plan step is never attempted
PlanDone_OffByOne(s, planlen) == s >= planlen

\* state['step'] > len(plan_details.get('plan', []))
PlanDone(s, planlen) == s > planlen

\* a mutation of StepCeiling: one step more is let through
StepCeiling_Late(s, maxsteps) == s > maxsteps + 1

\* state['step'] > state['max_steps']
StepCeiling(s, maxsteps) == s > maxsteps

EndWith(msg, reason) ==
    [decision |-> "__end__", pushed |-> <<FinishEvent(msg, reason)>>]

\* a mutation of Completion: the finish check is made before the target check
Completion_FinishFirst(n, target, action, s, planlen, maxsteps) ==
    IF action.type = "finish"
    THEN EndWith("agent_finished", FinishReason(action))
    ELSE IF TargetReached(n, target)
    THEN EndWith("agent_finished", Collected(n, target))
    ELSE IF PlanDone(s, planlen)
    THEN EndWith("agent_finished", Reason("All plan steps completed."))
    ELSE IF StepCeiling(s, maxsteps)
    THEN EndWith("agent_stopped", Reason("Max steps reached."))
    ELSE [decision |-> "continue", pushed |-> <<>>]

\* the checks made after a Success, in the order of the code: the value
\* returned and the status event pushed
Completion(n, target, action, s, planlen, maxsteps) ==
    IF TargetReached(n, target)
    THEN EndWith("agent_finished", Collected(n, target))
    ELSE IF action.type = "finish"
    THEN EndWith("agent_finished", FinishReason(action))
    ELSE IF PlanDone(s, planlen)
    THEN EndWith("agent_finished", Reason("All plan steps completed."))
    ELSE IF StepCeiling(s, maxsteps)
    THEN EndWith("agent_stopped", Reason("Max steps reached."))
    ELSE [decision |-> "continue", pushed |-> <<>>]

\* a mutation of Route: a Success does not reset retry_count
Route_NoReset(outcome, rc, n, target, action, s, planlen, maxsteps) ==
    IF outcome = "FAILED"
    THEN IF CanRetry(rc)
         THEN [decision |-> "retry", retry_count |-> rc + 1,
               pushed |-> <<>>, summary |-> <<>>]
         ELSE [decision |-> "__end__", retry_count |-> rc,
               pushed |-> <<>>, summary |-> <<HaltEntry>>]
    ELSE LET c == Completion(n, target, action, s, planlen, maxsteps)
         IN  [decision |-> c.decision, retry_count |-> rc,
              pushed |-> c.pushed, summary |-> <<>>]

\* the branch taken: the value returned, retry_count afterwards, the status
\* events pushed and the entries appended to execution_summary
Route(outcome, rc, n, target, action, s, planlen, maxsteps) ==
    IF outcome = "FAILED"
    THEN IF CanRetry(rc)
         THEN [decision |-> "retry", retry_count |-> rc + 1,
               pushed |-> <<>>, summary |-> <<>>]
         ELSE [decision |-> "__end__", retry_count |-> rc,
               pushed |-> <<>>, summary |-> <<HaltEntry>>]
    ELSE LET c == Completion(n, target, action, s, planlen, maxsteps)
         IN  [decision |-> c.decision, retry_count |-> 0,
              pushed |-> c.pushed, summary |-> <<>>]

\* a mutation of Target: a continue is wired to the executor
Target_SkipReasoner(d) ==
    IF d = "continue" THEN "action_executor"
    ELSE IF d = "retry" THEN "researcher"
    ELSE "__end__"

\* a mutation of Target: a retry is wired to the plan updater
Target_SkipResearch(d) ==
    IF d = "continue" THEN "agent_reasoner"
    ELSE IF d = "retry" THEN "plan_updater"
    ELSE "__end__"

\* create_graph: the node each returned value leads to
Target(d) ==
    IF d = "continue" THEN "agent_reasoner"
    ELSE IF d = "retry" THEN "researcher"
    ELSE "__end__"

validator_and_router_node ==
    /\ job = "running"
    /\ pc = "router"
    /\ LET r == Route(last_action_outcome, retry_count, Len(results),
                      plan_details.target_count, last_action, step,
                      Len(plan_details.plan), max_steps)
       IN  /\ retry_count' = r.retry_count
           /\ decision' = r.decision
           /\ events' = events \o r.pushed
           /\ execution_summary' = execution_summary \o r.summary
           /\ pc' = Target(r.decision)
    /\ UNCHANGED <<plan_details, current_task, results, screenshots, step, max_steps,
                   history, last_action, last_action_outcome, last_error,
                   research_summary, supersteps, exc, tavily_configured>>

(***************************************************************************)
(* graph.py: researcher_node                                               *)
(***************************************************************************)

NotConfigured == "Tavily API key not configured. Skipping research."

\* what the two calls of the try block do
ResearchOutcomes == {"found", "search_failed", "analysis_failed"}

ResearchFailed == "Research failed"

\* a mutation of TryResearch: the except clause is missing
TryResearch_Uncaught(o) ==
    IF o = "found"
    THEN [raised |-> NoExc, summary |-> "analysis"]
    ELSE [raised |-> "Exception", summary |-> ""]

\* the try block: tavily_client.search, then get_research_analysis; the
\* except clause turns an exception of either into the summary
TryResearch(o) ==
    [raised |-> NoExc,
     summary |-> IF o = "found" THEN "analysis" ELSE ResearchFailed]

researcher_node ==
    /\ CanRun("researcher")
    /\ supersteps' = supersteps + 1
    /\ IF ~tavily_configured
       THEN /\ research_summary' = NotConfigured
            /\ pc' = "plan_updater"
            /\ UNCHANGED <<events, exc>>
       ELSE \E o \in ResearchOutcomes :
              LET r == TryResearch(o)
              IN  IF r.raised # NoExc
                  THEN /\ Raise(r.raised)
                       /\ events' = Append(events, Event("research_started"))
                       /\ UNCHANGED research_summary
                  ELSE /\ research_summary' = r.summary
                       /\ events' = events \o <<Event("research_started"),
                                                Event("research_complete")>>
                       /\ pc' = "plan_updater"
                       /\ UNCHANGED exc
    /\ UNCHANGED <<plan_details, current_task, results, screenshots, step, max_steps,
                   history, execution_summary, last_action, last_action_outcome,
                   last_error, retry_count, decision, tavily_configured>>

(***************************************************************************)
(* graph.py: plan_updater_node                                             *)
(***************************************************************************)
plan_updater_node ==
    /\ CanRun("plan_updater")
    /\ supersteps' = supersteps + 1
    /\ \E r \in Answers(UpdateCalls, SteadyPlan("revised")) :
             IF r.raises # NoExc
             THEN /\ Raise(r.raises)
                  /\ events' = Append(events, Event("updating_plan"))
                  /\ UNCHANGED <<plan_details, execution_summary>>
             ELSE /\ plan_details' = ReplacePlan(plan_details, r.value)
                  /\ events' = events \o <<Event("updating_plan"), Event("plan_updated")>>
                  /\ execution_summary' =
                        Append(execution_summary, Entry("plan_updated", 0, ""))
                  /\ pc' = "agent_reasoner"
                  /\ UNCHANGED exc
    /\ UNCHANGED <<current_task, results, screenshots, step, max_steps, history,
                   last_action, last_action_outcome, last_error, retry_count,
                   research_summary, decision, tavily_configured>>

(***************************************************************************)
(* main.py run_job: recursion_limit of the graph run.  The graph raises    *)
(* GraphRecursionError in the place of the node that would exceed it.      *)
(***************************************************************************)

Nodes == {"planner", "agent_reasoner", "action_executor", "researcher", "plan_updater"}

recursion_limit ==
    /\ job = "running"
    /\ pc \in Nodes
    /\ supersteps >= run.recursion_limit
    /\ Raise("GraphRecursionError")
    /\ UNCHANGED <<plan_details, current_task, results, screenshots, step, max_steps,
                   history, execution_summary, last_action, last_action_outcome,
                   last_error, retry_count, research_summary, decision, events,
                   supersteps, tavily_configured>>

(***************************************************************************)
(* main.py: the job around the graph run.                                  *)
(***************************************************************************)

\* every answer of the provider, under the short recursion limit
RunWide == [recursion_limit |-> RecursionLimit, provider |-> "any", clients |-> FALSE]

\* a steady provider, under the long recursion limit, with a client fetching
\* its result and streaming its events
RunLong == [recursion_limit |-> LongRunLimit, provider |-> "steady", clients |-> TRUE]

job_id == "job"

\* final_state_dict.get("error") when no exception was caught
None == <<>>

\* f"An unexpected error occurred: {str(e)}"
ErrorMessage(e) == <<"An unexpected error occurred", e>>

JobDidNotComplete == <<Entry("Job did not complete.", 0, "")>>

\* result_data of the finally clause: final_state_dict is what invoke
\* returned, or {} with the error key when an exception was caught
result_data ==
    IF exc = NoExc
    THEN [results |-> results, screenshots |-> screenshots,
          execution_summary |-> execution_summary, error |-> None]
    ELSE [results |-> <<>>, screenshots |-> <<>>,
          execution_summary |-> JobDidNotComplete, error |-> ErrorMessage(exc)]

NoData == [results |-> <<>>, screenshots |-> <<>>, execution_summary |-> <<>>,
           error |-> None]

\* the results file: absent, opened for writing and still empty, or written
NoFile == [exists |-> FALSE, written |-> FALSE, data |-> NoData]

EmptyFile == [exists |-> TRUE, written |-> FALSE, data |-> NoData]

Written(data) == [exists |-> TRUE, written |-> TRUE, data |-> data]

\* a response to GET /result: the status code and the body
Response(status, data) == [status |-> status, data |-> data]

NoFetch == Response(0, NoData)

InitServer ==
    /\ job = "new"
    /\ browser = "none"
    /\ results_file = NoFile
    /\ JOB_RESULTS = [j \in {} |-> NoData]
    /\ fetched = NoFetch
    /\ streamed = 0

\* push_status(job_id, "job_failed", {"error": error_message, "trace": tb_str})
FailedEvent(e) == [msg |-> "job_failed", reason |-> Reason(e)]

graphVars == <<pc, plan_details, current_task, results, screenshots, step, max_steps,
               history, execution_summary, last_action, last_action_outcome,
               last_error, retry_count, research_summary, decision, supersteps,
               tavily_configured>>

\* POST /search: the queue of the job is created and run_job is scheduled
start_search ==
    /\ job = "new"
    /\ job' = "queued"
    /\ events' = Append(events, Event("job_queued"))
    /\ UNCHANGED <<graphVars, exc, run, browser, results_file, JOB_RESULTS, fetched, streamed>>

\* run_job up to the graph run: the browser is launched and the page opened;
\* either may raise
run_job ==
    /\ job = "queued"
    /\ \E o \in {"ok", "launch_raises", "goto_raises"} :
         /\ browser' = IF o = "launch_raises" THEN "none" ELSE "open"
         /\ IF o = "ok"
            THEN /\ events' = events \o <<Event("job_initiated"), Event("job_started")>>
                 /\ job' = "running"
                 /\ UNCHANGED exc
            ELSE /\ events' = Append(events, Event("job_initiated"))
                 /\ job' = "raised"
                 /\ exc' = "PlaywrightError"
    /\ UNCHANGED <<graphVars, run, results_file, JOB_RESULTS, fetched, streamed>>

\* the except clause: the exception that left the graph or the set-up
run_job_except ==
    /\ \/ job = "running" /\ pc = "error"
       \/ job = "raised"
    /\ events' = Append(events, FailedEvent(exc))
    /\ job' = "caught"
    /\ UNCHANGED <<graphVars, exc, run, browser, results_file, JOB_RESULTS, fetched, streamed>>

\* the finally clause: open(results_file, "w")
run_job_open ==
    /\ \/ job = "running" /\ pc = "__end__"
       \/ job = "caught"
    /\ results_file' = EmptyFile
    /\ job' = "dumping"
    /\ UNCHANGED <<graphVars, exc, events, run, browser, JOB_RESULTS, fetched, streamed>>

\* a mutation of browser_close: the browser is left open
browser_close_Skipped(b) == b

\* if browser: browser.close()
browser_close(b) == IF b = "open" THEN "closed" ELSE b

\* the rest of the finally clause: json.dump and the close of the file,
\* JOB_RESULTS[job_id] = result_data, the terminal status event, and
\* browser.close()
run_job_finally ==
    /\ job = "dumping"
    /\ results_file' = Written(result_data)
    /\ JOB_RESULTS' = [j \in {job_id} |-> result_data]
    /\ events' = Append(events, Event(IF result_data.error = None
                                      THEN "job_done" ELSE "job_failed"))
    /\ browser' = browser_close(browser)
    /\ job' = "done"
    /\ UNCHANGED <<graphVars, exc, run, fetched, streamed>>

\* json.load of the results file: JSONDecodeError on a file that has been
\* opened for writing and not yet written, an unhandled error of the request
FromFile ==
    IF results_file.written
    THEN Response(200, results_file.data)
    ELSE Response(500, NoData)

\* the response of GET /result/{job_id} in the current state
Pending == Response(202, NoData)

ResultResponse ==
    IF job_id \in DOMAIN JOB_RESULTS
    THEN Response(200, JOB_RESULTS[job_id])
    ELSE IF results_file.exists THEN FromFile ELSE Pending

\* GET /result/{job_id}, at any moment of the job
get_result ==
    /\ run.clients
    /\ fetched' = ResultResponse
    /\ UNCHANGED <<jobVars, run, job, browser, results_file, JOB_RESULTS, streamed>>

\* msg["msg"] in ("job_done", "job_failed")
IsTerminal(e) == e.msg \in {"job_done", "job_failed"}

\* the generator of stream_status has left its loop: the last event it took
\* was terminal
StreamClosed == streamed > 0 /\ IsTerminal(events[streamed])

\* GET /stream/{job_id}: one turn of the loop of event_generator, which takes
\* the oldest event off the queue of the job, sends it, and breaks on a
\* terminal one; before start_search there is no queue (404)
stream_status ==
    /\ run.clients
    /\ job # "new"
    /\ ~StreamClosed
    /\ streamed < Len(events)
    /\ streamed' = streamed + 1
    /\ UNCHANGED <<jobVars, run, job, browser, results_file, JOB_RESULTS, fetched>>

(***************************************************************************)
(* Specifications.                                                         *)
(***************************************************************************)

Init ==
    /\ InitJob
    /\ InitServer
    /\ run \in {RunWide, RunLong}
    /\ text = <<>>
    /\ decoded = NotDecoded

Next ==
    \/ start_search /\ UNCHANGED decodeVars
    \/ run_job /\ UNCHANGED decodeVars
    \/ planning_node /\ UNCHANGED <<serverVars, decodeVars>>
    \/ agent_reasoning_node /\ UNCHANGED <<serverVars, decodeVars>>
    \/ execute_action_node /\ UNCHANGED <<serverVars, decodeVars>>
    \/ validator_and_router_node /\ UNCHANGED <<serverVars, decodeVars>>
    \/ researcher_node /\ UNCHANGED <<serverVars, decodeVars>>
    \/ plan_updater_node /\ UNCHANGED <<serverVars, decodeVars>>
    \/ recursion_limit /\ UNCHANGED <<serverVars, decodeVars>>
    \/ run_job_except /\ UNCHANGED decodeVars
    \/ run_job_open /\ UNCHANGED decodeVars
    \/ run_job_finally /\ UNCHANGED decodeVars
    \/ get_result /\ UNCHANGED decodeVars
    \/ stream_status /\ UNCHANGED decodeVars

Spec == Init /\ [][Next]_vars

\* every answer of the provider, under a recursion limit that one recovery
\* fits below
RunBrief == [recursion_limit |-> RecursionLimit - 4, provider |-> "any",
             clients |-> FALSE]

\* the long run with no client
RunQuiet == [recursion_limit |-> LongRunLimit, provider |-> "steady",
             clients |-> FALSE]

\* a short run of the steady provider with a client fetching its result and
\* streaming its events
RunWatched == [recursion_limit |-> RecursionLimit - 6, provider |-> "steady",
               clients |-> TRUE]

\* the steps of the worker thread that runs the job
Worker == Next /\ job # "new" /\ fetched' = fetched /\ streamed' = streamed

\* the worker thread goes on as long as it has a step to take: every
\* external call returns or raises
InitLive ==
    /\ InitJob
    /\ InitServer
    /\ run \in {RunBrief, RunQuiet, RunWatched}
    /\ text = <<>>
    /\ decoded = NotDecoded

SpecLive == InitLive /\ [][Next]_vars /\ WF_vars(Worker)

\* the decode applied to every response text of at most MaxTextLen tokens
InitD == InitJob /\ InitServer /\ run = RunWide /\ InitDecode

NextD == Decode /\ UNCHANGED <<jobVars, serverVars>>

SpecDecode == InitD /\ [][NextD]_vars


(***************************************************************************)
(* Properties.                                                             *)
(***************************************************************************)

\* the outcomes of the Executor passes so far, oldest first
Outcomes ==
    LET isAction(e) == e.kind = "action"
        acts == SelectSeq(execution_summary, isAction)
    IN  [i \in 1..Len(acts) |-> acts[i].outcome]

\* the number of FAILED outcomes that end the sequence
RECURSIVE TrailingFailures(_)
TrailingFailures(o) ==
    IF o = <<>> \/ o[Len(o)] # "FAILED" THEN 0
    ELSE 1 + TrailingFailures(SubSeq(o, 1, Len(o) - 1))

\* the status events pushed from within the graph run, oldest first
GraphEvents ==
    LET ofGraph(e) == e.msg \notin {"job_queued", "job_initiated", "job_started",
                                    "job_done", "job_failed"}
    IN  SelectSeq(events, ofGraph)

\* the status event the graph run pushed last, and its reason
LastGraphEvent ==
    IF GraphEvents = <<>> THEN Event(NoVal) ELSE GraphEvents[Len(GraphEvents)]

LastReason == LastGraphEvent.reason

\* a Router pass: the step the graph takes from the conditional edge
AtRouter == pc = "router" /\ pc' # "router"

\* C1: retry_count is in 0..2 in every state; a Router pass on a Failed
\* outcome adds exactly 1 while retry_count is below 2 and leaves it alone
\* at 2; a Router pass on a Success outcome leaves it at 0; no other phase
\* writes it.
C1_RetryCountBounded ==
    /\ [](retry_count \in 0..2)
    /\ [][/\ AtRouter /\ last_action_outcome = "FAILED" /\ retry_count < 2
             => retry_count' = retry_count + 1
          /\ AtRouter /\ last_action_outcome = "FAILED" /\ retry_count >= 2
             => retry_count' = retry_count
          /\ AtRouter /\ last_action_outcome = "Success"
             => retry_count' = 0
          /\ ~AtRouter => retry_count' = retry_count]_vars

\* a second retry has been granted
C1_Witness ==
    /\ pc = "researcher"
    /\ decision = "retry"
    /\ retry_count = 2

\* C2: step is 1 at the start and changes only in the Executor: a pass with
\* outcome Success adds exactly 1, a pass with outcome Failed (or one that
\* raises) leaves it, and no other phase writes it.
C2_StepAdvancesOnSuccessOnly ==
    /\ step = 1
    /\ [][IF pc = "action_executor" /\ pc' = "router"
          THEN /\ last_action_outcome' = "Success" => step' = step + 1
               /\ last_action_outcome' = "FAILED" => step' = step
               /\ last_action_outcome' \in {"Success", "FAILED"}
          ELSE step' = step]_vars

\* the step has advanced twice and an action has failed in between
C2_Witness ==
    /\ step = 3
    /\ \E i \in 1..Len(Outcomes) : Outcomes[i] = "FAILED"
    /\ \E i \in 1..Len(history) : history[i].step = 2 /\ history[i].outcome = "Success"

\* the checks of the Router in the order of spec.md 4.4, each with the
\* decision and the reason it reports
RouterChecks ==
    LET n == Len(results)
        t == plan_details.target_count
    IN  << [match |-> last_action_outcome = "FAILED" /\ retry_count < 2,
            decision |-> "retry", reason |-> NoReason],
           [match |-> last_action_outcome = "FAILED",
            decision |-> "__end__", reason |-> Reason("halt")],
           [match |-> t # Absent /\ n >= t,
            decision |-> "__end__", reason |-> Collected(n, t)],
           [match |-> last_action.type = "finish",
            decision |-> "__end__",
            reason |-> Reason(IF last_action.reason = NoVal
                              THEN "Task completed." ELSE last_action.reason)],
           [match |-> step > Len(plan_details.plan),
            decision |-> "__end__", reason |-> Reason("All plan steps completed.")],
           [match |-> step > max_steps,
            decision |-> "__end__", reason |-> Reason("Max steps reached.")],
           [match |-> TRUE,
            decision |-> "continue", reason |-> NoReason] >>

FirstMatch ==
    CHOOSE i \in 1..Len(RouterChecks) :
        RouterChecks[i].match /\ \A j \in 1..(i - 1) : ~RouterChecks[j].match

\* C3: a Router pass returns the decision and reports the reason of the
\* first check that matches, in the order: Failed (retry below 2 retries,
\* else halt), results size >= target_count, finish, step > plan length,
\* step > max_steps, continue.  The halt reason is the entry appended to
\* execution_summary, the other reasons are carried by the status event.
C3_RouterFirstMatch ==
    [][AtRouter =>
         LET c == RouterChecks[FirstMatch]
         IN  /\ decision' = c.decision
             /\ IF c.reason = NoReason
                THEN events' = events /\ execution_summary' = execution_summary
                ELSE IF c.reason = Reason("halt")
                THEN events' = events
                     /\ execution_summary' = Append(execution_summary, HaltEntry)
                ELSE /\ Len(events') = Len(events) + 1
                     /\ events'[Len(events')].reason = c.reason
                     /\ execution_summary' = execution_summary]_vars

\* the target check has won over the finish, plan-length and ceiling checks
C3_Witness ==
    /\ pc = "__end__"
    /\ LastReason.text = "Collected"
    /\ last_action.type = "finish"
    /\ step > Len(plan_details.plan)
    /\ step > max_steps

\* C4: a Router pass on a Failed outcome with retry_count already 2 halts the
\* job with the maximum-retries entry, and once the job has ended no node
\* runs.
C4_ThirdFailureHalts ==
    [][/\ AtRouter /\ last_action_outcome = "FAILED" /\ retry_count = 2
          => /\ pc' = "__end__"
             /\ execution_summary' = Append(execution_summary, HaltEntry)
       /\ pc = "__end__" => pc' = "__end__" /\ supersteps' = supersteps]_vars

\* the job has halted on a third consecutive failure
C4_Witness ==
    /\ pc = "__end__"
    /\ retry_count = 2
    /\ execution_summary[Len(execution_summary)] = HaltEntry
    /\ TrailingFailures(Outcomes) = 3

\* C5: counting the consecutive failures that end the outcome sequence, the
\* Router pass after the first leaves retry_count 1 and after the second 2,
\* each routing to the Researcher, and the pass after a Success leaves 0 and
\* continues unless a completion check matches; an action retried after a
\* failure is executed only after Researcher, Plan-updater and Reasoner, in
\* that order.
C5_FailFailSucceed ==
    /\ [][AtRouter =>
            LET k == TrailingFailures(Outcomes)
            IN  /\ k \in {1, 2} => retry_count' = k /\ pc' = "researcher"
                /\ k = 0 => /\ retry_count' = 0
                            /\ pc' \in {"agent_reasoner", "__end__"}
                            /\ pc' = "agent_reasoner" <=>
                                 ~ \E i \in 3..6 : RouterChecks[i].match]_vars
    /\ [][/\ pc = "researcher" /\ pc' # pc => pc' \in {"plan_updater", "error"}
          /\ pc = "plan_updater" /\ pc' # pc => pc' \in {"agent_reasoner", "error"}]_vars
    /\ [](pc = "action_executor" /\ TrailingFailures(Outcomes) > 0
            => LET n == Len(execution_summary)
               IN  /\ n >= 3
                   /\ execution_summary[n].kind = "thought"
                   /\ execution_summary[n - 1].kind = "plan_updated"
                   /\ execution_summary[n - 2] = Entry("action", 0, "FAILED")
                   /\ research_summary # "")

\* two failures, then a success, and the job goes on with retry_count 0
C5_Witness ==
    /\ pc = "agent_reasoner"
    /\ decision = "continue"
    /\ retry_count = 0
    /\ Len(Outcomes) >= 3
    /\ SubSeq(Outcomes, Len(Outcomes) - 2, Len(Outcomes)) = <<"FAILED", "FAILED", "Success">>


\* the job has ended by a decision of the Router
Ended == pc = "__end__"

\* the run of C6: every outcome Success, no target_count, the last action
\* not a finish; N is the length of the plan
AllSuccess == \A i \in 1..Len(Outcomes) : Outcomes[i] = "Success"

PlanRunsThrough ==
    /\ Ended
    /\ AllSuccess
    /\ plan_details.target_count = Absent
    /\ last_action.type # "finish"
    /\ Len(plan_details.plan) <= max_steps

\* what C6 says of such a run
EndsAfterPlan ==
    /\ Len(Outcomes) = Len(plan_details.plan)
    /\ step = Len(plan_details.plan) + 1
    /\ LastGraphEvent =
          FinishEvent("agent_finished", Reason("All plan steps completed."))

\* C6 as stated: a job with a plan of N <= max_steps steps, no target_count,
\* no finish action and every outcome Success makes exactly N Executor passes
\* and ends at step N + 1 with "All plan steps completed."; without a
\* target_count the target check ends no job.
C6_Original ==
    /\ PlanRunsThrough => EndsAfterPlan
    /\ Ended /\ plan_details.target_count = Absent => LastReason.text # "Collected"

\* C6 amended: the same for 1 <= N <= max_steps.
C6_PlanCompleted ==
    /\ PlanRunsThrough /\ Len(plan_details.plan) >= 1 => EndsAfterPlan
    /\ Ended /\ plan_details.target_count = Absent => LastReason.text # "Collected"

\* a plan of max_steps steps has run through
C6_Witness ==
    /\ PlanRunsThrough
    /\ Len(plan_details.plan) = max_steps
    /\ Len(plan_details.plan) >= 2
    /\ step = max_steps + 1

\* the Executor pass just made was an extract that brought results to the
\* target
ExtractReachedTarget ==
    /\ AtRouter
    /\ last_action.type = "extract"
    /\ plan_details.target_count # Absent
    /\ Len(results) - Len(last_action.items) < plan_details.target_count
    /\ Len(results) >= plan_details.target_count

EndsCollected ==
    /\ pc' = "__end__"
    /\ events' = Append(events, FinishEvent("agent_finished",
                                            Collected(Len(results),
                                                      plan_details.target_count)))

\* C7 as stated: when an extract brings the size of results to at least
\* target_count, the Router pass after that Executor pass ends the job with
\* the collected reason, and no node runs afterwards.
C7_Original ==
    [][/\ ExtractReachedTarget => EndsCollected
       /\ Ended => pc' = "__end__" /\ supersteps' = supersteps]_vars

\* C7 amended: the same for an extract whose Executor pass has outcome
\* Success.
C7_TargetReachedEnds ==
    [][/\ ExtractReachedTarget /\ last_action_outcome = "Success" => EndsCollected
       /\ Ended => pc' = "__end__" /\ supersteps' = supersteps]_vars

\* the job has ended on the target with plan steps left and below the ceiling
C7_Witness ==
    /\ Ended
    /\ LastReason = Collected(Len(results), plan_details.target_count)
    /\ last_action.type = "extract"
    /\ Len(results) - Len(last_action.items) < plan_details.target_count
    /\ step <= Len(plan_details.plan)
    /\ step <= max_steps

\* the action just executed is a finish with a reason string
FinishExecuted ==
    /\ AtRouter
    /\ last_action.type = "finish"
    /\ last_action.reason # NoVal

EndsWithAgentReason ==
    /\ pc' = "__end__"
    /\ events' = Append(events, FinishEvent("agent_finished",
                                            Reason(last_action.reason)))

\* C8 as stated: after a finish with a reason string the Router pass ends the
\* job and reports exactly that reason, whatever the other state.
C8_Original == [][FinishExecuted => EndsWithAgentReason]_vars

\* C8 amended: the same when the finish was executed with outcome Success and
\* the size of results is below target_count (or there is no target_count),
\* whatever the plan and the step.
C8_FinishReasonReported ==
    [][/\ FinishExecuted
       /\ last_action_outcome = "Success"
       /\ ~(plan_details.target_count # Absent
            /\ Len(results) >= plan_details.target_count)
       => EndsWithAgentReason]_vars

\* the agent's reason has ended a job whose plan had steps left
C8_Witness ==
    /\ Ended
    /\ last_action.type = "finish"
    /\ LastReason = Reason(last_action.reason)
    /\ last_action.reason # NoVal
    /\ step <= Len(plan_details.plan)
    /\ step <= max_steps

\* C9: the decode raises on no response text that is not JSON: it returns
\* the default wait action (or what the repair could parse).
C9_MalformedNeverRaises ==
    decoded # NotDecoded /\ ~json_loads_ok(text) => decoded.kind # "raise"

\* C10: after an Executor pass on an action that is empty, has no type or
\* has a type outside the vocabulary, the outcome is Failed, the error is not
\* empty and step has not advanced.
C10_UnknownActionFails ==
    [][/\ pc = "action_executor"
       /\ pc' = "router"
       /\ last_action.type \notin Vocabulary
       => /\ last_action_outcome' = "FAILED"
          /\ last_error' # ""
          /\ step' = step]_vars

\* an Executor pass: the step the graph takes from action_executor
ExecutorPass == pc = "action_executor" /\ supersteps' = supersteps + 1

\* C11: an Executor pass on an action object never raises: whatever the
\* browser calls do (return, time out, raise with or without a message) and
\* whichever fields the action lacks, the pass ends with an outcome, with
\* last_error set when the outcome is Failed, and the Router runs next.
C11_ExecutorNeverRaises ==
    [][ExecutorPass /\ last_action.shape = "dict"
       => /\ pc' = "router"
          /\ exc' = NoExc
          /\ last_action_outcome' \in {"Success", "FAILED"}
          /\ last_action_outcome' = "FAILED" => last_error' # ""]_vars

\* s is an initial part of t
IsPrefix(s, t) == Len(s) <= Len(t) /\ SubSeq(t, 1, Len(s)) = s

RouterEnds == AtRouter /\ pc' = "__end__"

\* C14: a Router pass that ends the job reports exactly one reason, and that
\* reason (maximum retries, target count reached, finished by agent, all plan
\* steps completed, max steps reached) is the entry it appends to
\* execution_summary, so that the summary of the ended job ends with it.
C14_ReasonInSummary ==
    [][RouterEnds
       => LET c == RouterChecks[FirstMatch]
          IN  /\ c.reason # NoReason
              /\ Len(execution_summary') = Len(execution_summary) + 1
              /\ execution_summary'[Len(execution_summary')] =
                    (IF c.reason = Reason("halt")
                     THEN HaltEntry
                     ELSE [kind |-> "reason", step |-> 0, outcome |-> c.reason.text])]_vars

\* C19 as stated: max_steps is never written, and step <= max_steps in every
\* state.
C19_Original ==
    /\ [][max_steps' = max_steps]_vars
    /\ [](step <= max_steps)

\* C19 amended: max_steps is never written; step <= max_steps + 1 in every
\* state, and step <= max_steps whenever a node is about to run, so that no
\* action is chosen or executed at a step above max_steps: step exceeds
\* max_steps only between the Executor pass that reaches max_steps + 1 and
\* the Router pass that ends the job, and in the ended job.
C19_StepCeiling ==
    /\ [][max_steps' = max_steps]_vars
    /\ [](step <= max_steps + 1)
    /\ [](pc \in Nodes => step <= max_steps)
    /\ [][AtRouter /\ step > max_steps => pc' = "__end__"]_vars

\* a plan longer than max_steps has been stopped by the ceiling
C19_Witness ==
    /\ Ended
    /\ step = max_steps + 1
    /\ Len(plan_details.plan) > max_steps
    /\ LastReason = Reason("Max steps reached.")

\* a Researcher pass: the step the graph takes from researcher
ResearcherPass == pc = "researcher" /\ supersteps' = supersteps + 1

\* C20: a Researcher pass never raises: with the search not configured, with
\* the search failing and with the analysis failing alike it ends with
\* research_summary set (to the not-configured or the failure text in those
\* cases), with step, retry_count, plan_details and results as they were,
\* and with control passed to the Plan-updater.
C20_ResearcherNeverThrows ==
    [][ResearcherPass
       => /\ exc' = NoExc
          /\ pc' = "plan_updater"
          /\ research_summary' \in {NotConfigured, ResearchFailed, "analysis"}
          /\ ~tavily_configured => research_summary' = NotConfigured
          /\ UNCHANGED <<step, retry_count, plan_details, results>>]_vars

\* the Plan-updater has run on a degraded summary of a failed research, and
\* the Reasoner is next
C20_Witness ==
    /\ pc = "agent_reasoner"
    /\ tavily_configured
    /\ research_summary = ResearchFailed
    /\ execution_summary[Len(execution_summary)].kind = "plan_updated"

\* C12: history never holds more than 5 entries; an Executor pass that
\* completes appends one entry, the one of its step and outcome, and keeps
\* the 5 most recent entries in their order; no other step changes history.
C12_HistoryCapped ==
    /\ [](Len(history) <= 5)
    /\ [][IF ExecutorPass /\ pc' = "router"
          THEN LET full == Append(history,
                                  Entry("history", step, last_action_outcome'))
                   kept == IF Len(full) <= 5 THEN Len(full) ELSE 5
               IN  /\ Len(history') = kept
                   /\ \A i \in 1..kept :
                         history'[i] = full[Len(full) - kept + i]
          ELSE history' = history]_vars

\* the sixth Executor pass has evicted the entry of the first
C12_Witness ==
    /\ Len(Outcomes) = 6
    /\ Len(history) = 5
    /\ \A i \in 1..5 : history[i].outcome = Outcomes[i + 1]
    /\ Outcomes[1] # Outcomes[6]
    /\ history[5].step = step - 1

\* run_job has returned
JobOver == job = "done"

\* C15: of the events pushed for a job exactly one is terminal (job_done or
\* job_failed) and it is the last one pushed; it is job_failed exactly when
\* the error field of the result record is set.
C15_OneTerminalEvent ==
    /\ \A i \in 1..Len(events) : IsTerminal(events[i]) => i = Len(events)
    /\ JobOver
       => /\ events # <<>>
          /\ IsTerminal(events[Len(events)])
          /\ events[Len(events)].msg = "job_failed"
                <=> JOB_RESULTS[job_id].error # None

\* an exception has left the graph run or the set-up of run_job
Raised == job = "raised" \/ (job = "running" /\ pc = "error")

\* C16: an exception that leaves a phase (or the set-up) is caught by
\* run_job: the step run_job takes next is its except clause, which pushes a
\* job_failed event carrying the error; the job then runs to its end, where
\* the result record stored and written has a non-null error field; and at
\* the end of every job, ended by the Router or by an exception, the browser
\* is not left open.
C16_FailureCaught ==
    /\ [][Raised /\ job' # job
          => /\ job' = "caught"
             /\ events' = Append(events, FailedEvent(exc))]_vars
    /\ [](JobOver /\ exc # NoExc
            => /\ \E i \in 1..Len(events) : events[i] = FailedEvent(exc)
               /\ JOB_RESULTS[job_id].error = ErrorMessage(exc)
               /\ JOB_RESULTS[job_id].error # None
               /\ results_file = Written(JOB_RESULTS[job_id]))
    /\ [](JobOver => browser # "open")
    /\ [](JobOver /\ exc = NoExc => pc = "__end__" /\ browser = "closed")

\* a job that broke the recursion limit has been finalized
C16_Witness ==
    /\ JobOver
    /\ exc = "GraphRecursionError"
    /\ browser = "closed"
    /\ JOB_RESULTS[job_id].error = ErrorMessage("GraphRecursionError")
    /\ events[Len(events)] = Event("job_failed")

\* C17: the result record stored at the end of a job, ended by the Router or
\* by an exception, holds the results, the screenshots and the
\* execution_summary the job state had accumulated.
C17_SnapshotHoldsState ==
    JobOver
    => /\ JOB_RESULTS[job_id].results = results
       /\ JOB_RESULTS[job_id].screenshots = screenshots
       /\ IsPrefix(execution_summary, JOB_RESULTS[job_id].execution_summary)

Stored == job_id \in DOMAIN JOB_RESULTS

\* C18: a fetch made once the result record is stored returns that record,
\* which never changes afterwards; a fetch made before returns pending.
C18_FetchIdempotent ==
    /\ [][fetched' # fetched
          => fetched' = IF Stored THEN Response(200, JOB_RESULTS[job_id])
                        ELSE Pending]_vars
    /\ [][Stored => JOB_RESULTS' = JOB_RESULTS]_vars

\* a Plan-updater pass: the step the graph takes from plan_updater
UpdaterPass == pc = "plan_updater" /\ supersteps' = supersteps + 1

\* the recovery pair is about to run, resp. to go on
InRecovery == pc \in {"researcher", "plan_updater"}

\* every step of the plan has the wording of the Plan-updater's output
IsRevised(pd) == pd.plan = PlanOf("revised", Len(pd.plan))

\* the pair leaves step, retry_count and the Router's decision alone, and
\* the decision changes in a Router pass only
PairRoutesNothing ==
    /\ InRecovery => UNCHANGED <<step, retry_count, decision>>
    /\ decision' # decision => AtRouter

Terminated == pc = "__end__" \/ exc # NoExc

\* the number of Success outcomes so far
Successes == Cardinality({i \in 1..Len(Outcomes) : Outcomes[i] = "Success"})

\* C22: every job that is queued comes to its end, by a terminal decision of
\* the Router or by an exception, and run_job returns; the act/recover loop
\* is bounded by the state itself: step counts the Success outcomes and
\* stays within max_steps + 1, and no run of consecutive failures is longer
\* than the retry bound allows.
C22_JobTerminates ==
    /\ (job = "queued") ~> (JobOver /\ Terminated)
    /\ [](step = Successes + 1 /\ step <= max_steps + 1)
    /\ [](TrailingFailures(Outcomes) <= RetryLimit + 1)
    /\ [](Len(Outcomes) <= (RetryLimit + 1) * max_steps)

\* the longest act/recover run has been ended by the Router and run_job has
\* returned
C22_Witness ==
    /\ JobOver
    /\ pc = "__end__"
    /\ Len(Outcomes) = (RetryLimit + 1) * max_steps
    /\ retry_count = 2

\* C23: the recursion limit ends no job that keeps within its own bounds: a
\* job whose step is within max_steps and whose run of consecutive failures
\* is within the retry bound is not ended by GraphRecursionError.
C23_CeilingNotReached ==
    exc = "GraphRecursionError"
    => step > max_steps \/ TrailingFailures(Outcomes) > RetryLimit

\* control comes to phase b
Enters(b) == pc # b /\ pc' = b

\* C24: the phases of a job run in the order of the graph.  The Planner is
\* first and is never entered again; the Executor is entered from the
\* Reasoner only; the Router is entered from the Executor only, and every
\* Executor pass that completes leads to it; the Researcher is entered only
\* by a retry decision of the Router, and leads to the Plan-updater, which
\* leads to the Reasoner; a continue decision leads to the Reasoner, which is
\* entered in no other way than these and from the Planner; and after a
\* terminal decision no phase runs and the job state stays as it is.  A pass
\* that raises ends the graph run in the place of the phase it would lead to.
C24_GraphOrder ==
    /\ pc = "planner" /\ supersteps = 0
    /\ [][/\ ~Enters("planner")
          /\ pc = "planner" /\ pc' # pc => pc' \in {"agent_reasoner", "error"}
          /\ supersteps = 0 /\ supersteps' # 0 => pc = "planner"
          /\ Enters("action_executor") => pc = "agent_reasoner"
          /\ pc = "agent_reasoner" /\ pc' # pc => pc' \in {"action_executor", "error"}
          /\ Enters("router") => ExecutorPass
          /\ ExecutorPass /\ exc' = NoExc => pc' = "router"
          /\ AtRouter => supersteps' = supersteps
          /\ Enters("researcher") => AtRouter /\ decision' = "retry"
          /\ AtRouter /\ decision' = "retry" => pc' = "researcher"
          /\ pc = "researcher" /\ pc' # pc => pc' \in {"plan_updater", "error"}
          /\ Enters("plan_updater") => ResearcherPass
          /\ pc = "plan_updater" /\ pc' # pc => pc' \in {"agent_reasoner", "error"}
          /\ AtRouter /\ decision' = "continue" => pc' = "agent_reasoner"
          /\ Enters("agent_reasoner")
             => \/ pc = "planner"
                \/ UpdaterPass
                \/ AtRouter /\ decision' = "continue"
          /\ Enters("__end__") => AtRouter /\ decision' = "__end__"
          /\ pc = "__end__" => UNCHANGED graphVars
          /\ pc = "error" => UNCHANGED graphVars]_vars

\* a recovery and a continue have both led back to the Reasoner, and the
\* Executor is next for the third time
C24_Witness ==
    /\ pc = "action_executor"
    /\ decision = "continue"
    /\ Outcomes = <<"FAILED", "Success">>
    /\ supersteps = 8
    /\ execution_summary[1].kind = "plan"

\* a pass of the Reasoner
ReasonerPass == pc = "agent_reasoner" /\ supersteps' = supersteps + 1

\* C25: at the end of every Reasoner pass current_task is the task at
\* position step of the plan_details of that moment when step is within the
\* length of the plan, and the plan-complete sentinel otherwise; the pass
\* that follows a Plan-updater replacement takes the task from the new plan,
\* at the step the recovery left unchanged.
C25_TaskFromPlan ==
    [][ReasonerPass
       => /\ UNCHANGED <<plan_details, step>>
          /\ \/ /\ step' <= Len(plan_details'.plan)
                /\ current_task' = <<plan_details'.plan[step'][1], step'>>
             \/ /\ step' > Len(plan_details'.plan)
                /\ current_task' = PlanCompleteTask]_vars

\* the Reasoner has run after a Plan-updater replacement, at step 2, and
\* the task is the second one of the revised plan
C25_Witness ==
    /\ pc = "action_executor"
    /\ decision = "retry"
    /\ step = 2
    /\ IsRevised(plan_details)
    /\ current_task = <<"revised", 2>>

\* a pass of the Planner
PlannerPass == pc = "planner" /\ supersteps' = supersteps + 1

\* C26: plan_details is written by the Planner and the Plan-updater only,
\* each time as a whole: a step that changes it is a pass of one of the two
\* and leaves the object its call returned, every step of it in the words of
\* that call, and wherever else control is (Reasoner, Executor, Router,
\* Researcher, the ends of the run) plan_details stays as it is.
C26_PlanWrittenWhole ==
    [][/\ pc \notin {"planner", "plan_updater"} => plan_details' = plan_details
       /\ plan_details' # plan_details
          => \/ PlannerPass /\ plan_details' \in PlanDetails("initial")
             \/ UpdaterPass /\ plan_details' \in PlanDetails("revised")]_vars

\* the Plan-updater has replaced a plan by a shorter one, the Reasoner and
\* the Executor have run since, and the plan is the one the update left
C26_Witness ==
    /\ pc = "router"
    /\ decision = "retry"
    /\ plan_details = [plan |-> PlanOf("revised", 1), target_count |-> 1]
    /\ execution_summary[1].kind = "plan"
    /\ Len(Outcomes) = 2

\* the Router pass being made returns continue
Continues == AtRouter /\ decision' = "continue"

\* the state a continue leaves
ContinueState ==
    /\ last_action_outcome' = "Success"
    /\ retry_count' = 0
    /\ step' <= Len(plan_details'.plan)
    /\ step' <= max_steps'
    /\ plan_details'.target_count # Absent
       => Len(results') < plan_details'.target_count
    /\ last_action'.type # "finish"

\* the Reasoner pass being made is the first of the job, on an empty plan
FirstPassOnEmptyPlan == supersteps = 1 /\ plan_details.plan = <<>>

\* the Reasoner pass being made follows a Plan-updater replacement that left
\* a plan shorter than step
AfterShortening ==
    /\ decision = "retry"
    /\ execution_summary[Len(execution_summary)].kind = "plan_updated"
    /\ Len(plan_details.plan) < step

\* C27: whenever the Router returns continue the outcome is Success,
\* retry_count is 0, step is within the plan and within max_steps, results
\* is smaller than target_count where there is one, and the action was no
\* finish; so a Reasoner pass that sets the plan-complete sentinel is either
\* the first pass of the job, on an empty plan, or the pass after a
\* Plan-updater replacement that left the plan shorter than step.
C27_ContinueState ==
    [][/\ Continues => ContinueState
       /\ ReasonerPass /\ current_task' = PlanCompleteTask
          => FirstPassOnEmptyPlan \/ AfterShortening]_vars

\* after a continue, a failure at step 2 and a replacement by a plan of one
\* step, the Reasoner has set the sentinel
C27_Witness ==
    /\ pc = "action_executor"
    /\ current_task = PlanCompleteTask
    /\ step = 2
    /\ Len(plan_details.plan) = 1
    /\ IsRevised(plan_details)
    /\ Outcomes = <<"Success", "FAILED">>

\* a terminal event has been pushed for the job
TerminalPushed == \E i \in 1..Len(events) : IsTerminal(events[i])

\* the subscriber's stream has closed and a fetch is answered pending
ClosedWhilePending == StreamClosed /\ ResultResponse = Pending

\* C28: the result is stored before any terminal event is pushed, so that in
\* every interleaving of the worker thread, the subscriber and the fetcher a
\* fetch made once the subscriber has received the first terminal event (and
\* its stream has closed) returns the final result record and not the
\* pending status.
C28_StoredBeforeTerminal ==
    /\ TerminalPushed => Stored
    /\ StreamClosed => ResultResponse = Response(200, result_data)

====
